---- MODULE Spec2Model ----
(***************************************************************************)
(* Research Assistant (src/app.py): the section-order validator, the PDF   *)
(* text extractor and the generate handler with its one-shot correction    *)
(* pass.                                                                   *)
(*                                                                         *)
(* Three specifications share the module:                                  *)
(*   SpecValidate  validate_section_order applied to a bounded set of texts*)
(*   SpecExtract   extract_text_from_pdf applied to a bounded set of PDFs  *)
(*   Spec          one run of the "Generate structured output" handler     *)
(***************************************************************************)
EXTENDS Integers, Sequences, FiniteSets, TLC

VARIABLES
    \* ---- validate_section_order as a pure function (SpecValidate)
    text,           \* the argument
    vres,           \* <<>> before the call, <<[ok, reason]>> after it
    \* ---- extract_text_from_pdf as a pure function (SpecExtract)
    pdf,            \* the argument: [pages, error]
    extracted,      \* <<>> before the call, <<returned text>> after it
    \* ---- the generate handler (Spec)
    pc,             \* position in the script
    api_key,        \* sidebar field
    uploaded_pdfs,  \* number of uploaded files
    pdf_texts,      \* number of files read into pdf_texts
    user_prompt,    \* TRUE once build_user_prompt has run
    calls,          \* the chat.completions.create calls issued, in order
    output, ok, reason,       \* first attempt (output and reason are reassigned
                              \* by a successful correction pass)
    output1,        \* history: the first attempt's output as first assigned
    output2, ok2, reason2,    \* correction pass
    errors,         \* st.error messages shown
    warnings,       \* st.warning messages shown
    text_area,      \* <<>> or <<value of the "Structured Output" area>>
    caption         \* <<>> or <<the "Format check" caption>>

vvars == <<text, vres>>
evars == <<pdf, extracted>>
gvars == <<pc, api_key, uploaded_pdfs, pdf_texts, user_prompt, calls, output, ok,
           reason, output1, output2, ok2, reason2, errors, warnings, text_area,
           caption>>
vars == <<vvars, evars, gvars>>

(***************************************************************************)
(* Bounds                                                                  *)
(***************************************************************************)
MaxLen == 6        \* tokens in a text made of section titles
MaxMixed == 2      \* tokens in a text that also holds filler
MaxPages == 2      \* pages of a PDF
MaxPageRuns == 2   \* runs of equal characters in a page's text
MaxPdfs == 2       \* uploaded files in a run

(***************************************************************************)
(* Texts checked by the validator.                                         *)
(*                                                                         *)
(* A text is a sequence of tokens; a token is one of the six section       *)
(* titles or a filler string.  Every title starts with its own digit and   *)
(* no digit occurs elsewhere in a title or in a filler, so the occurrences *)
(* of a title in the concatenated string are exactly the tokens equal to   *)
(* it, and they never overlap.                                             *)
(***************************************************************************)
SECTION_TITLES ==
    << "1. Structured Research Summary",
       "2. Key Gaps",
       "3. Methods",
       "4. Related Work",
       "5. APA References",
       "6. Future Directions" >>

NumTitles == Len(SECTION_TITLES)
Titles == {SECTION_TITLES[k] : k \in 1..NumTitles}
Whitespace == {" ", "\n"}
Filler == Whitespace \cup {"x"}

SeqsUpTo(S, n) == UNION {[1..m -> S] : m \in 0..n}

\* the well-formed document and its one-edit variants
Canon == SECTION_TITLES
Drop(k) == SubSeq(Canon, 1, k - 1) \o SubSeq(Canon, k + 1, NumTitles)
DupEnd(k) == Canon \o <<Canon[k]>>
DupFront(k) == <<Canon[k]>> \o Canon
Swap(k) == [i \in 1..NumTitles |->
              IF i = k THEN Canon[k + 1] ELSE IF i = k + 1 THEN Canon[k] ELSE Canon[i]]
Variants ==
    {Canon} \cup {Drop(k) : k \in 1..NumTitles}
            \cup {DupEnd(k) : k \in 1..NumTitles}
            \cup {DupFront(k) : k \in 1..NumTitles}
            \cup {Swap(k) : k \in 1..(NumTitles - 1)}

\* v with filler tokens woven in: the result holds the token fs[i] at each index
\* i of P and the tokens of v, in order, at the other indices
Weave(v, P, fs) ==
    [i \in 1..(Len(v) + Cardinality(P)) |->
        IF i \in P THEN fs[i] ELSE v[i - Cardinality({p \in P : p < i})]]

\* the three families of texts the validator is applied to: title-only texts,
\* short texts of titles and filler, and the variants of the well-formed document
\* with up to MaxMixed filler tokens woven in
IsText(t) ==
    \/ t \in SeqsUpTo(Titles, MaxLen)
    \/ t \in SeqsUpTo(Titles \cup Filler, MaxMixed)
    \/ \E v \in Variants, m \in 1..MaxMixed :
          \E P \in {Q \in SUBSET (1..(Len(v) + m)) : Cardinality(Q) = m} :
             \E fs \in [P -> Filler] : t = Weave(v, P, fs)

\* len(text[:i-1]) for the token at index i
RECURSIVE Offset(_, _)
Offset(t, i) == IF i <= 1 THEN 0 ELSE Offset(t, i - 1) + Len(t[i - 1])

\* str.find: character index of the first occurrence, -1 when there is none
find(t, title) ==
    IF \E i \in 1..Len(t) : t[i] = title
    THEN Offset(t, CHOOSE i \in 1..Len(t) :
                      /\ t[i] = title
                      /\ \A j \in 1..(i - 1) : t[j] # title)
    ELSE -1

\* str.count
count(t, title) == Cardinality({i \in 1..Len(t) : t[i] = title})

\* not text or not text.strip()
IsBlank(t) == \A i \in 1..Len(t) : t[i] \in Whitespace

\* sorted(): insertion sort
RECURSIVE Insert(_, _)
Insert(x, s) ==
    IF s = <<>> THEN <<x>>
    ELSE IF x <= Head(s) THEN <<x>> \o s
    ELSE <<Head(s)>> \o Insert(x, Tail(s))

RECURSIVE sorted(_)
sorted(s) == IF s = <<>> THEN <<>> ELSE Insert(Head(s), sorted(Tail(s)))

MissingReason(title) == "Missing required section title: " \o title
DuplicatedReason(title) == "Section title duplicated or malformed: " \o title
OrderReason == "Section titles are present but not in the required order."
EmptyReason == "Empty response."

Result(o, r) == [ok |-> o, reason |-> r]

\* the first loop: the first title, in required order, that find() misses (0: none)
FirstMissing(t) ==
    IF \E k \in 1..NumTitles : find(t, SECTION_TITLES[k]) = -1
    THEN CHOOSE k \in 1..NumTitles :
            /\ find(t, SECTION_TITLES[k]) = -1
            /\ \A j \in 1..(k - 1) : find(t, SECTION_TITLES[j]) # -1
    ELSE 0

\* the second loop: the first title, in required order, whose count is not 1 (0: none)
FirstMiscounted(t) ==
    IF \E k \in 1..NumTitles : count(t, SECTION_TITLES[k]) # 1
    THEN CHOOSE k \in 1..NumTitles :
            /\ count(t, SECTION_TITLES[k]) # 1
            /\ \A j \in 1..(k - 1) : count(t, SECTION_TITLES[j]) = 1
    ELSE 0

\* positions, as the first loop leaves it when no title is missing
Positions(t) == [k \in 1..NumTitles |-> find(t, SECTION_TITLES[k])]

validate_no_order_check(t) ==
    IF IsBlank(t) THEN Result(FALSE, EmptyReason)
    ELSE IF FirstMissing(t) # 0
         THEN Result(FALSE, MissingReason(SECTION_TITLES[FirstMissing(t)]))
    ELSE IF FirstMiscounted(t) # 0
         THEN Result(FALSE, DuplicatedReason(SECTION_TITLES[FirstMiscounted(t)]))
    ELSE Result(TRUE, "OK")

validate_cites_first_title(t) ==
    IF IsBlank(t) THEN Result(FALSE, EmptyReason)
    ELSE IF FirstMissing(t) # 0
         THEN Result(FALSE, MissingReason(SECTION_TITLES[1]))
    ELSE IF Positions(t) # sorted(Positions(t))
         THEN Result(FALSE, OrderReason)
    ELSE IF FirstMiscounted(t) # 0
         THEN Result(FALSE, DuplicatedReason(SECTION_TITLES[FirstMiscounted(t)]))
    ELSE Result(TRUE, "OK")

validate_no_duplicate_check(t) ==
    IF IsBlank(t) THEN Result(FALSE, EmptyReason)
    ELSE IF FirstMissing(t) # 0
         THEN Result(FALSE, MissingReason(SECTION_TITLES[FirstMissing(t)]))
    ELSE IF Positions(t) # sorted(Positions(t))
         THEN Result(FALSE, OrderReason)
    ELSE Result(TRUE, "OK")

validate_duplicates_first(t) ==
    IF IsBlank(t) THEN Result(FALSE, EmptyReason)
    ELSE IF FirstMissing(t) # 0
         THEN Result(FALSE, MissingReason(SECTION_TITLES[FirstMissing(t)]))
    ELSE IF FirstMiscounted(t) # 0
         THEN Result(FALSE, DuplicatedReason(SECTION_TITLES[FirstMiscounted(t)]))
    ELSE IF Positions(t) # sorted(Positions(t))
         THEN Result(FALSE, OrderReason)
    ELSE Result(TRUE, "OK")

validate_section_order(t) ==
    IF IsBlank(t) THEN Result(FALSE, EmptyReason)
    ELSE IF FirstMissing(t) # 0
         THEN Result(FALSE, MissingReason(SECTION_TITLES[FirstMissing(t)]))
    ELSE IF Positions(t) # sorted(Positions(t))
         THEN Result(FALSE, OrderReason)
    ELSE IF FirstMiscounted(t) # 0
         THEN Result(FALSE, DuplicatedReason(SECTION_TITLES[FirstMiscounted(t)]))
    ELSE Result(TRUE, "OK")

(***************************************************************************)
(* SpecValidate: the validator applied to every text of Texts              *)
(***************************************************************************)
IdleExtract == /\ pdf = [pages |-> <<>>, error |-> ""]
               /\ extracted = <<>>

IdleGenerate ==
    /\ pc = "idle"
    /\ api_key = ""
    /\ uploaded_pdfs = 0
    /\ pdf_texts = 0
    /\ user_prompt = FALSE
    /\ calls = <<>>
    /\ output = <<>> /\ ok = FALSE /\ reason = ""
    /\ output1 = <<>>
    /\ output2 = <<>> /\ ok2 = FALSE /\ reason2 = ""
    /\ errors = <<>>
    /\ warnings = <<>>
    /\ text_area = <<>>
    /\ caption = <<>>

IdleValidate == /\ text = <<>>
                /\ vres = <<>>

InitValidate ==
    /\ IsText(text)
    /\ vres = <<>>
    /\ IdleExtract
    /\ IdleGenerate

Validate ==
    /\ vres = <<>>
    /\ vres' = <<validate_section_order(text)>>
    /\ UNCHANGED <<text, evars, gvars>>

NextValidate == Validate

SpecValidate == InitValidate /\ [][NextValidate]_vars

(***************************************************************************)
(* PDF text.  A text is a sequence of runs [ch, n]: n >= 1 copies of the   *)
(* character ch, so that texts of the size of the 120,000 character        *)
(* ceiling can be sliced, measured and stripped exactly.                   *)
(***************************************************************************)
DEFAULT_MAX_CHARS == 120000

RunChars == {"x", " "}
RunLens == {1, DEFAULT_MAX_CHARS \div 2}
Runs == [ch : RunChars, n : RunLens]
PageTexts == SeqsUpTo(Runs, MaxPageRuns)
\* page.extract_text() returns a string or None
Pages == [none : {FALSE}, t : PageTexts] \cup {[none |-> TRUE, t |-> <<>>]}
\* error = "": the parser succeeds; otherwise PdfReader or extract_text raises it
Pdfs == [pages : SeqsUpTo(Pages, MaxPages), error : {"", "EOF marker not found"}]

\* len()
RECURSIVE StrLen(_)
StrLen(t) == IF t = <<>> THEN 0 ELSE Head(t).n + StrLen(Tail(t))

\* text[:k], k >= 0
RECURSIVE Prefix(_, _)
Prefix(t, k) ==
    IF t = <<>> \/ k <= 0 THEN <<>>
    ELSE IF Head(t).n <= k
         THEN <<Head(t)>> \o Prefix(Tail(t), k - Head(t).n)
    ELSE <<[ch |-> Head(t).ch, n |-> k]>>

IsSpaceRun(r) == r.ch \in Whitespace

RECURSIVE lstrip(_)
lstrip(t) ==
    IF t = <<>> THEN <<>>
    ELSE IF IsSpaceRun(Head(t)) THEN lstrip(Tail(t))
    ELSE t

RECURSIVE rstrip(_)
rstrip(t) ==
    IF t = <<>> THEN <<>>
    ELSE IF IsSpaceRun(t[Len(t)]) THEN rstrip(SubSeq(t, 1, Len(t) - 1))
    ELSE t

\* str.strip()
strip(t) == rstrip(lstrip(t))

\* "\n\n".join(chunks)
RECURSIVE join(_)
join(chunks) ==
    IF chunks = <<>> THEN <<>>
    ELSE IF Len(chunks) = 1 THEN chunks[1]
    ELSE chunks[1] \o <<[ch |-> "\n", n |-> 2]>> \o join(Tail(chunks))

\* page.extract_text() or ""
PageText(page) == IF page.none THEN <<>> ELSE page.t

\* the for loop over reader.pages, from page i on; the value is chunks at its end
RECURSIVE PageLoop(_, _, _, _, _)
PageLoop(pages, i, chunks, total, max_chars) ==
    IF i > Len(pages) THEN chunks
    ELSE LET t == PageText(pages[i])
             remaining == max_chars - total
         IN IF strip(t) = <<>>
            THEN PageLoop(pages, i + 1, chunks, total, max_chars)
            ELSE IF remaining <= 0 THEN chunks
            ELSE PageLoop(pages, i + 1, Append(chunks, Prefix(t, remaining)),
                          total + StrLen(Prefix(t, remaining)), max_chars)

\* f"[PDF extraction failed: {e}]"
FailedText(e) == <<[ch |-> "x", n |-> Len("[PDF extraction failed: ") + Len(e) + Len("]")]>>

extract_text_from_pdf(file, max_chars) ==
    IF file.error # "" THEN FailedText(file.error)
    ELSE strip(join(PageLoop(file.pages, 1, <<>>, 0, max_chars)))

(***************************************************************************)
(* SpecExtract: the extractor applied to every PDF of Pdfs, with the       *)
(* default max_chars (the only way the handler calls it)                   *)
(***************************************************************************)
InitExtract ==
    /\ pdf \in Pdfs
    /\ extracted = <<>>
    /\ IdleValidate
    /\ IdleGenerate

Extract ==
    /\ extracted = <<>>
    /\ extracted' = <<extract_text_from_pdf(pdf, DEFAULT_MAX_CHARS)>>
    /\ UNCHANGED <<pdf, vvars, gvars>>

NextExtract == Extract

SpecExtract == InitExtract /\ [][NextExtract]_vars

(***************************************************************************)
(* The generate handler (the script body under "if generate:").            *)
(*                                                                         *)
(* The model endpoint is the environment: a call returns a message whose   *)
(* content is None or a text, or it raises.  An uncaught exception ends    *)
(* the script run.  The closing promotional-language hint (st.info) reads  *)
(* output and changes nothing the handler reads; it is left out.           *)
(***************************************************************************)
ApiKeys == {"", "sk-test"}

\* what the model may answer with
OutputTexts == Variants \cup {<<>>, <<" ">>, <<"x">>, <<"x", "\n">> \o Canon}
Contents == [none : {FALSE}, t : OutputTexts] \cup {[none |-> TRUE, t |-> <<>>]}

\* resp.choices[0].message.content or ""
OrEmpty(content) == IF content.none THEN <<>> ELSE content.t

MissingKeyError ==
    "Missing OPENAI_API_KEY. Add it as an environment variable on Render or paste it in the sidebar."
CorrectedReason == "OK (after correction pass)"
StillFailedWarning(r) == "Output still failed strict formatting: " \o r
FormatCheck(r) == "Format check: " \o r

InitGenerate ==
    /\ pc = "idle"
    /\ api_key \in ApiKeys
    /\ uploaded_pdfs \in 0..MaxPdfs
    /\ pdf_texts = 0
    /\ user_prompt = FALSE
    /\ calls = <<>>
    /\ output = <<>> /\ ok = FALSE /\ reason = ""
    /\ output1 = <<>>
    /\ output2 = <<>> /\ ok2 = FALSE /\ reason2 = ""
    /\ errors = <<>>
    /\ warnings = <<>>
    /\ text_area = <<>>
    /\ caption = <<>>

Init == IdleValidate /\ IdleExtract /\ InitGenerate

\* The button is pressed: the script runs again from the top, with the form as the
\* user left it, and draws the page anew.
ClickGenerate ==
    /\ pc \in {"idle", "done", "stopped", "crashed"}
    /\ pc' = "credential_check"
    /\ api_key' \in ApiKeys
    /\ uploaded_pdfs' \in 0..MaxPdfs
    /\ pdf_texts' = 0
    /\ user_prompt' = FALSE
    /\ calls' = <<>>
    /\ output' = <<>> /\ ok' = FALSE /\ reason' = ""
    /\ output1' = <<>>
    /\ output2' = <<>> /\ ok2' = FALSE /\ reason2' = ""
    /\ errors' = <<>>
    /\ warnings' = <<>>
    /\ text_area' = <<>>
    /\ caption' = <<>>
    /\ UNCHANGED <<vvars, evars>>

credential_check_without_stop(key) == "read_pdfs"

\* if not api_key: st.error(...); st.stop()
credential_check(key) == IF key = "" THEN "stopped" ELSE "read_pdfs"

CredentialCheck ==
    /\ pc = "credential_check"
    /\ errors' = IF api_key = "" THEN <<MissingKeyError>> ELSE <<>>
    /\ pc' = credential_check(api_key)
    /\ UNCHANGED <<api_key, uploaded_pdfs, pdf_texts, user_prompt, calls, output, ok,
                   reason, output1, output2, ok2, reason2, warnings, text_area, caption,
                   vvars, evars>>

\* one iteration of "for f in uploaded_pdfs": an entry is appended whether or not
\* reading the file raises
ReadPdf ==
    /\ pc = "read_pdfs"
    /\ pdf_texts < uploaded_pdfs
    /\ pdf_texts' = pdf_texts + 1
    /\ UNCHANGED <<pc, api_key, uploaded_pdfs, user_prompt, calls, output, ok, reason,
                   output1, output2, ok2, reason2, errors, warnings, text_area, caption,
                   vvars, evars>>

\* combined_pdf_text, build_user_prompt and the client
BuildPrompt ==
    /\ pc = "read_pdfs"
    /\ pdf_texts = uploaded_pdfs
    /\ user_prompt' = TRUE
    /\ pc' = "first_attempt"
    /\ UNCHANGED <<api_key, uploaded_pdfs, pdf_texts, calls, output, ok, reason, output1,
                   output2, ok2, reason2, errors, warnings, text_area, caption,
                   vvars, evars>>

always_corrects(first_ok) == TRUE

\* if not ok:
needs_correction(first_ok) == ~first_ok

\* the first call returns; its output is validated
FirstAttempt ==
    /\ pc = "first_attempt"
    /\ \E content \in Contents :
          LET out == OrEmpty(content)
              v == validate_section_order(out)
          IN /\ calls' = Append(calls, "first")
             /\ output' = out
             /\ output1' = out
             /\ ok' = v.ok
             /\ reason' = v.reason
             /\ pc' = IF needs_correction(v.ok) THEN "correction_pass" ELSE "display"
    /\ UNCHANGED <<api_key, uploaded_pdfs, pdf_texts, user_prompt, output2, ok2, reason2,
                   errors, warnings, text_area, caption, vvars, evars>>

\* the first call raises
FirstAttemptRaises ==
    /\ pc = "first_attempt"
    /\ calls' = Append(calls, "first")
    /\ pc' = "crashed"
    /\ UNCHANGED <<api_key, uploaded_pdfs, pdf_texts, user_prompt, output, ok, reason,
                   output1, output2, ok2, reason2, errors, warnings, text_area, caption,
                   vvars, evars>>

correction_keeps_first_reason(out, rsn, out2, second_ok, rsn2) ==
    IF second_ok
    THEN [output |-> out2, reason |-> rsn, warnings |-> <<>>]
    ELSE [output |-> out, reason |-> rsn, warnings |-> <<StillFailedWarning(rsn2)>>]

correction_shows_second_output(out, rsn, out2, second_ok, rsn2) ==
    IF second_ok
    THEN [output |-> out2, reason |-> CorrectedReason, warnings |-> <<>>]
    ELSE [output |-> out2, reason |-> rsn, warnings |-> <<StillFailedWarning(rsn2)>>]

\* if ok2: output = output2; reason = "OK (after correction pass)"
\* else: st.warning(...)
correction_result(out, rsn, out2, second_ok, rsn2) ==
    IF second_ok
    THEN [output |-> out2, reason |-> CorrectedReason, warnings |-> <<>>]
    ELSE [output |-> out, reason |-> rsn, warnings |-> <<StillFailedWarning(rsn2)>>]

\* the correction call returns; its output is validated
CorrectionPass ==
    /\ pc = "correction_pass"
    /\ \E content \in Contents :
          LET out2 == OrEmpty(content)
              v2 == validate_section_order(out2)
              res == correction_result(output, reason, out2, v2.ok, v2.reason)
          IN /\ calls' = Append(calls, "correction")
             /\ output2' = out2
             /\ ok2' = v2.ok
             /\ reason2' = v2.reason
             /\ output' = res.output
             /\ reason' = res.reason
             /\ warnings' = res.warnings
             /\ pc' = "display"
    /\ UNCHANGED <<api_key, uploaded_pdfs, pdf_texts, user_prompt, ok, output1, errors,
                   text_area, caption, vvars, evars>>

\* the correction call raises
CorrectionPassRaises ==
    /\ pc = "correction_pass"
    /\ calls' = Append(calls, "correction")
    /\ pc' = "crashed"
    /\ UNCHANGED <<api_key, uploaded_pdfs, pdf_texts, user_prompt, output, ok, reason,
                   output1, output2, ok2, reason2, errors, warnings, text_area, caption,
                   vvars, evars>>

\* st.text_area("Structured Output", value=output); st.caption(f"Format check: {reason}")
Display ==
    /\ pc = "display"
    /\ text_area' = <<output>>
    /\ caption' = <<FormatCheck(reason)>>
    /\ pc' = "done"
    /\ UNCHANGED <<api_key, uploaded_pdfs, pdf_texts, user_prompt, calls, output, ok,
                   reason, output1, output2, ok2, reason2, errors, warnings,
                   vvars, evars>>

Next ==
    \/ ClickGenerate
    \/ CredentialCheck
    \/ ReadPdf
    \/ BuildPrompt
    \/ FirstAttempt
    \/ FirstAttemptRaises
    \/ CorrectionPass
    \/ CorrectionPassRaises
    \/ Display

Spec == Init /\ [][Next]_vars

(***************************************************************************)
(* Claims about validate_section_order (SpecValidate).  The predicates     *)
(* below speak of the tokens of the text, not of find() and count().       *)
(***************************************************************************)
Occurrences(t, title) == {i \in 1..Len(t) : t[i] = title}
Present(t, title) == Occurrences(t, title) # {}
Duplicated(t, title) == Cardinality(Occurrences(t, title)) > 1
FirstOccurrence(t, title) ==
    CHOOSE i \in Occurrences(t, title) : \A j \in Occurrences(t, title) : i <= j

AllPresent(t) == \A title \in Titles : Present(t, title)
SomeAbsent(t) == \E title \in Titles : ~Present(t, title)
AnyDuplicated(t) == \E title \in Titles : Duplicated(t, title)
EachExactlyOnce(t) == \A title \in Titles : Cardinality(Occurrences(t, title)) = 1
InRequiredOrder(t) ==
    /\ AllPresent(t)
    /\ \A j, k \in 1..NumTitles :
          j < k => FirstOccurrence(t, SECTION_TITLES[j]) < FirstOccurrence(t, SECTION_TITLES[k])
OnlyWhitespace(t) == \A i \in 1..Len(t) : t[i] \notin Titles /\ t[i] # "x"

Validated == vres # <<>>
Verdict == vres[1]

\* C1: ok=true if and only if each of the six titles occurs exactly once and the
\* first occurrences are strictly increasing in the required order; such a text
\* gets (true, "OK").
C1_OkIffOnceEachInOrder ==
    Validated =>
        /\ Verdict.ok <=> (EachExactlyOnce(text) /\ InRequiredOrder(text))
        /\ (EachExactlyOnce(text) /\ InRequiredOrder(text)) => Verdict = Result(TRUE, "OK")

C1_Witness ==
    /\ Validated
    /\ Verdict.ok
    /\ \E i, j \in 1..Len(text) : text[i] = "x" /\ text[j] = "\n"

\* C2 as stated: every text from which a title is absent, the empty and the
\* whitespace-only ones included, gets ok=false with a reason citing an absent title.
C2_AbsentTitleCited ==
    (Validated /\ SomeAbsent(text)) =>
        /\ ~Verdict.ok
        /\ \E title \in Titles : ~Present(text, title) /\ Verdict.reason = MissingReason(title)

\* C2 amended: every text from which a title is absent gets ok=false; the reason
\* cites a title absent from the text unless the text is empty or whitespace-only,
\* where it is "Empty response.".
C2_AbsentTitleCitedUnlessBlank ==
    (Validated /\ SomeAbsent(text)) =>
        /\ ~Verdict.ok
        /\ OnlyWhitespace(text) => Verdict.reason = EmptyReason
        /\ ~OnlyWhitespace(text) =>
              \E title \in Titles : ~Present(text, title) /\ Verdict.reason = MissingReason(title)

C2_Witness ==
    /\ Validated
    /\ ~OnlyWhitespace(text)
    /\ Present(text, SECTION_TITLES[1])
    /\ ~Present(text, SECTION_TITLES[2])
    /\ ~Present(text, SECTION_TITLES[5])
    /\ Verdict.reason = MissingReason(SECTION_TITLES[2])

\* C3 as stated: every text in which a title occurs more than once gets ok=false
\* with the duplicated-title reason, whatever else is in the text.
C3_DuplicateCited ==
    (Validated /\ AnyDuplicated(text)) =>
        /\ ~Verdict.ok
        /\ \E title \in Titles : Verdict.reason = DuplicatedReason(title)

\* C3 amended: every text in which a title occurs more than once gets ok=false; the
\* reason cites the duplication of a duplicated title when all six titles are
\* present and their first occurrences are in the required order.
C3_DuplicateCitedWhenPresentInOrder ==
    (Validated /\ AnyDuplicated(text)) =>
        /\ ~Verdict.ok
        /\ InRequiredOrder(text) =>
              \E title \in Titles :
                  Duplicated(text, title) /\ Verdict.reason = DuplicatedReason(title)

C3_Witness ==
    /\ Validated
    /\ InRequiredOrder(text)
    /\ Duplicated(text, SECTION_TITLES[3])
    /\ text[Len(text)] # SECTION_TITLES[3]
    /\ Verdict.reason = DuplicatedReason(SECTION_TITLES[3])

\* C4: on a failing text the reason is that of the first violation in the
\* precedence empty, missing (first absent title in required order), out-of-order
\* (even if a title is also duplicated), duplicated (first duplicated title in
\* required order).
C4_ReasonPrecedence ==
    (Validated /\ ~Verdict.ok) =>
        /\ OnlyWhitespace(text) => Verdict.reason = EmptyReason
        /\ (~OnlyWhitespace(text) /\ SomeAbsent(text)) =>
              \E k \in 1..NumTitles :
                  /\ ~Present(text, SECTION_TITLES[k])
                  /\ \A j \in 1..(k - 1) : Present(text, SECTION_TITLES[j])
                  /\ Verdict.reason = MissingReason(SECTION_TITLES[k])
        /\ (AllPresent(text) /\ ~InRequiredOrder(text)) => Verdict.reason = OrderReason
        /\ (InRequiredOrder(text) /\ AnyDuplicated(text)) =>
              \E k \in 1..NumTitles :
                  /\ Duplicated(text, SECTION_TITLES[k])
                  /\ \A j \in 1..(k - 1) : ~Duplicated(text, SECTION_TITLES[j])
                  /\ Verdict.reason = DuplicatedReason(SECTION_TITLES[k])

C4_Witness ==
    /\ Validated
    /\ AllPresent(text)
    /\ ~InRequiredOrder(text)
    /\ AnyDuplicated(text)
    /\ Verdict.reason = OrderReason

(***************************************************************************)
(* Claim about extract_text_from_pdf (SpecExtract)                         *)
(***************************************************************************)
\* C9: whatever the pages, the string extract_text_from_pdf returns never has more
\* than max_chars (120,000) characters.
C9_ExtractedTextCapped ==
    extracted # <<>> => StrLen(extracted[1]) <= DEFAULT_MAX_CHARS

(***************************************************************************)
(* Claims about the generate handler (Spec)                                *)
(***************************************************************************)
FirstPassed == validate_section_order(output1).ok
SecondPassed == validate_section_order(output2).ok
BeginsWithOK(r) == \E rest \in {"", " (after correction pass)"} : r = "OK" \o rest
Reported == {caption[i] : i \in 1..Len(caption)} \cup {warnings[i] : i \in 1..Len(warnings)}

\* C5: a run that passes the credential check issues exactly one model call when the
\* first output passes validation and exactly two when it fails; the second call is
\* issued only after the first output failed validation; there is never a third.
C5_OneCallOrTwo ==
    /\ Len(calls) <= 2
    /\ Len(calls) = 2 => (calls = <<"first", "correction">> /\ ~FirstPassed)
    /\ pc \in {"display", "done"} => Len(calls) = (IF FirstPassed THEN 1 ELSE 2)
    /\ pc = "correction_pass" => (Len(calls) = 1 /\ ~FirstPassed)

C5_Witness ==
    /\ pc = "done"
    /\ Len(calls) = 2
    /\ ~FirstPassed
    /\ ~SecondPassed

\* C6: when the first output and the correction pass's output both fail validation,
\* the "Structured Output" area presents the second attempt's text.
C6_SecondAttemptShown ==
    (pc = "done" /\ Len(calls) = 2 /\ ~FirstPassed /\ ~SecondPassed) =>
        text_area = <<output2>>

\* C7: when the first output fails validation and the correction pass's output
\* passes, the reported reason is exactly "OK (after correction pass)", the text
\* presented is the second output and the first output's reason is not reported.
C7_CorrectedRunReport ==
    (pc = "done" /\ Len(calls) = 2 /\ SecondPassed) =>
        /\ caption = <<FormatCheck("OK (after correction pass)")>>
        /\ text_area = <<output2>>
        /\ FormatCheck(validate_section_order(output1).reason) \notin Reported
        /\ StillFailedWarning(validate_section_order(output1).reason) \notin Reported
        /\ warnings = <<>>

C7_Witness ==
    /\ pc = "done"
    /\ Len(calls) = 2
    /\ SecondPassed
    /\ output1 # <<>>
    /\ output2 # Canon

\* C8: with an empty API key the run shows the blocking error and stops: no PDF is
\* read, no prompt is built, no model call is issued, no output and no format-check
\* reason is displayed.
C8_MissingKeyStopsRun ==
    api_key = "" =>
        /\ pdf_texts = 0
        /\ ~user_prompt
        /\ calls = <<>>
        /\ text_area = <<>>
        /\ caption = <<>>
        /\ pc \notin {"idle", "credential_check"} =>
              (pc = "stopped" /\ errors = <<MissingKeyError>>)

C8_Witness ==
    /\ api_key = ""
    /\ pc = "stopped"
    /\ uploaded_pdfs > 0
    /\ errors # <<>>

====
